---- MODULE Spec2Model ----
(***************************************************************************)
(* Model of the asynchronous crawl engine (crawler_advanced.AsyncCrawler)  *)
(* together with the components it drives: UrlFilter, Parser link          *)
(* extraction, ContentRepository and CrawlCache (crawler_components).      *)
(*                                                                         *)
(* A URL is the sequence of its lexical parts, e.g. "https://a.test/p1/"   *)
(* is <<"https:", "//a.test", "/p1", "/">>.  The web site is outside the   *)
(* program: what a fetch returns is chosen when the fetch returns.         *)
(* Two consecutive generations (runs) over the same cache are modelled.    *)
(*                                                                         *)
(* Fetcher.fetch (rate limiter and retry loop, with a clock in ticks) is   *)
(* SpecFetch; the CrawlCache pages table used on its own is SpecStore,     *)
(* the ContentRepository SpecRepo and the UrlFilter SpecUrl.  SpecLive is  *)
(* one run under the fairness of the asyncio event loop.                   *)
(***************************************************************************)
EXTENDS Integers, Sequences, FiniteSets, TLC

\* ------------------------------------------------------------------ bounds
\* Largest number of worker tasks (config.max_workers) explored.
MaxWorkers == 2

\* The small page cap explored next to the cap of 10 pages.
SmallMaxPages == 3

\* Clock ticks in one second: delays are whole ticks, a Retry-After value
\* and the sleep after a 429 are whole seconds.
TicksPerSecond == 3

\* The clock stops here.
MaxTime == 12

\* Largest config.max_retries explored.
MaxRetries == 2

\* Largest numeric Retry-After value (seconds) a server sends.
MaxRetryAfter == 1

\* Largest number of add_or_update_page calls in a row.
MaxCalls == 3

\* Largest number of ContentRepository.add calls in a row.
MaxAdds == 3

\* Largest number of times normalize_url is applied to its own result.
MaxApplications == 2

\* ------------------------------------------------------------ URL universe
None == "None"

\* The None that stands for "no URL" where a URL is expected.
NoUrl == <<>>

\* The None that stands for "no page" where a page record is expected.
NoPage == [none |-> TRUE]

base_url == <<"https:", "//a.test", "/">>

HRoot  == <<"https:", "//a.test">>
HHome  == <<"https:", "//a.test", "/">>
HP1    == <<"https:", "//a.test", "/p1">>
HP1Slash == <<"https:", "//a.test", "/p1", "/">>
HP2    == <<"https:", "//a.test", "/p2">>
HP2Frag == <<"https:", "//a.test", "/p2", "#top">>
HExt   == <<"https:", "//b.test", "/external">>
HMail  == <<"mailto:", "info@a.test">>
HLogin == <<"https:", "//a.test", "/login">>
HLogo  == <<"https:", "//a.test", "/logo.png">>

SchemeTokens   == {"https:", "http:", "ftp:", "mailto:", "tel:"}
FragmentTokens == {"#top"}

\* The parameters of a query string, each with a plain value:
\* "https://a.test/p1?a=1&ref=r" is <<"https:", "//a.test", "/p1", "a=1", "ref=r">>.
\* Those that normalize_url deletes: utm_*, fbclid, gclid, ref.
TrackingParams == {"utm_source=x", "fbclid=z", "gclid=g", "ref=r"}
QueryTokens == TrackingParams \cup {"a=1"}

\* CrawlerConfig.normalize_urls, the default
normalize_urls == TRUE
static_segments == {"/logo.png"}
exclude_segments == {"/login"}

\* urlparse(url).netloc: the part after "//" of a URL that has one.
Netloc(url) ==
  IF Len(url) >= 2 /\ url[2] \in {"//a.test", "//b.test"} THEN url[2] ELSE ""

\* urlparse(url).path as the path parts of the URL.
PathOf(url) ==
  IF Netloc(url) = "" THEN <<>>
  ELSE SelectSeq(SubSeq(url, 3, Len(url)),
                 LAMBDA t : t \notin FragmentTokens \cup QueryTokens)

\* urlparse(url).query as the parameters of the URL.
QueryOf(url) == SelectSeq(url, LAMBDA t : t \in QueryTokens)

base_domain == Netloc(base_url)

\* url.split('#')[0]
RECURSIVE StripFragment(_)
StripFragment(url) ==
  IF url = <<>> THEN <<>>
  ELSE IF Head(url) \in FragmentTokens THEN <<>>
  ELSE <<Head(url)>> \o StripFragment(Tail(url))

\* urljoin(self.base_url, url): an absolute URL is left as it is, the empty
\* reference gives the base URL.
urljoin(url) == IF url = <<>> THEN base_url ELSE url

\* parse_qs, the deletion of the tracking parameters, urlencode and geturl:
\* the URL with the parameters that are left, in their order.
RebuildQuery(url) == SelectSeq(url, LAMBDA t : t \notin TrackingParams)

\* UrlFilter.normalize_url: the fragment is cut off, the query (if there is
\* one) is rebuilt without the tracking parameters, and one slash is
\* removed if the result ends with one.
normalize_url(url) ==
  LET nofrag == StripFragment(urljoin(url))
      rebuilt == IF normalize_urls /\ QueryOf(nofrag) # <<>>
                   THEN RebuildQuery(nofrag)
                   ELSE nofrag
  IN  IF rebuilt # <<>> /\ rebuilt[Len(rebuilt)] = "/"
        THEN SubSeq(rebuilt, 1, Len(rebuilt) - 1)
        ELSE rebuilt

\* should_crawl without the test of the domain.
should_crawl_any_domain(url) ==
  IF url = <<>> THEN FALSE
  ELSE LET n == normalize_url(url)
           path == PathOf(n)
       IN  IF path # <<>> /\ path[Len(path)] \in static_segments THEN FALSE
           ELSE IF n # <<>> /\ n[1] \in {"mailto:", "tel:"} THEN FALSE
           ELSE IF \E i \in 1..Len(path) : path[i] \in exclude_segments THEN FALSE
           ELSE TRUE

\* UrlFilter.should_crawl
should_crawl(url) ==
  IF url = <<>> THEN FALSE
  ELSE LET n == normalize_url(url)
           path == PathOf(n)
       IN  IF Netloc(n) # base_domain THEN FALSE
           ELSE IF path # <<>> /\ path[Len(path)] \in static_segments THEN FALSE
           ELSE IF n # <<>> /\ n[1] \in {"mailto:", "tel:"} THEN FALSE
           ELSE IF \E i \in 1..Len(path) : path[i] \in exclude_segments THEN FALSE
           ELSE TRUE

\* -------------------------------------------------------------- the site
\* Two versions of every page.  Version 1 is the three-page site whose root
\* links to /p1 and /p2 and whose /p1 links to an external URL.
Versions == {1, 2}

\* The page of the site a URL addresses.
PageOf(url) ==
  LET segs == SelectSeq(PathOf(url), LAMBDA t : t # "/")
  IN  IF Netloc(url) # "//a.test" THEN "other"
      ELSE IF segs = <<>> THEN "root"
      ELSE IF segs = <<"/p1">> THEN "p1"
      ELSE IF segs = <<"/p2">> THEN "p2"
      ELSE "other"

\* The hrefs of the anchors of a page, made absolute.
Hrefs(page, v) ==
  IF page = "other" THEN <<>>
  ELSE IF v = 1 THEN
    (IF page = "root" THEN <<HP1Slash, HP2Frag, HP1, HLogo>>
     ELSE IF page = "p1" THEN <<HExt, HMail>>
     ELSE <<>>)
  ELSE
    (IF page = "root" THEN <<HP2, HLogin>>
     ELSE IF page = "p1" THEN <<HExt, HHome>>
     ELSE <<HP1, HHome>>)

TitleOf(v) == IF v = 1 THEN "T1" ELSE "T2"
ETagOf(v) == IF v = 1 THEN "e1" ELSE None
LastModifiedOf(v) == IF v = 1 THEN None ELSE "m2"

\* Parser.parse, link part: every href that should_crawl admits, normalized.
RECURSIVE ParseLinks(_)
ParseLinks(hrefs) ==
  IF hrefs = <<>> THEN <<>>
  ELSE IF should_crawl(Head(hrefs))
         THEN <<normalize_url(Head(hrefs))>> \o ParseLinks(Tail(hrefs))
         ELSE ParseLinks(Tail(hrefs))

\* MarkdownConverter.convert: the Markdown text of a page version.
Markdown(v) == IF v = 1 THEN "md1" ELSE "md2"

\* The Markdown texts a page can have, the empty text among them.
Contents == {Markdown(v) : v \in Versions} \cup {""}

\* CrawlCache._compute_hash (SHA-256, taken to be collision free).
compute_hash(content) ==
  IF content = "md1" THEN "sha_md1"
  ELSE IF content = "md2" THEN "sha_md2"
  ELSE "sha_empty"

\* difflib.unified_diff joined: empty for equal texts.
unified_diff(old, new) == IF old = new THEN <<>> ELSE <<"---", old, "+++", new>>

\* Every href of the site, and every URL made of one.
AllHrefs == {HRoot, HHome, HP1, HP1Slash, HP2, HP2Frag, HExt, HMail, HLogin, HLogo}
Urls == AllHrefs \cup {base_url} \cup {StripFragment(h) : h \in AllHrefs}
                \cup {normalize_url(h) : h \in AllHrefs}

\* The URLs of the site that the filter admits, and the seed.
CrawlableUrls == {base_url, HRoot, HP1, HP2}

\* What Fetcher.fetch_async can give back to _process_url:
\*   ok         (html, headers) of a 200 HTML response of page version ver
\*   unparsable 200 HTML response with a body the parser fails on
\*   not_modified  (None, status 304, same tokens)
\*   failed     (None, status and error text): 404, HTTP error, network error
\*   non_html   (None, status, content type)
\*   raises     the call raises
\* exc: the place after the fetch at which an exception is raised.
Outcomes ==
     [res : {"ok"}, ver : Versions, exc : {"none", "convert", "upsert", "changed"}]
  \cup [res : {"unparsable", "not_modified", "failed", "non_html", "raises"},
        ver : {0}, exc : {"none"}]

NotFetched == [res |-> "none", ver |-> 0, exc |-> "none"]

\* What the run observed of an outcome: the result of the fetch and whether
\* an exception was raised after it.
Observed(o) == [o EXCEPT !.exc = IF @ = "none" THEN "none" ELSE "raised"]

\* page_data of a parsed and converted page version (Parser.parse,
\* headers_info of the fetch, MarkdownConverter.convert)
PageData(v) == [title |-> TitleOf(v), markdown_content |-> Markdown(v),
                etag |-> ETagOf(v), last_modified |-> LastModifiedOf(v)]

ErrorPage == [title |-> "Error", markdown_content |-> None,
              etag |-> None, last_modified |-> None]

Put(f, k, v) == [x \in (DOMAIN f) \cup {k} |-> IF x = k THEN v ELSE f[x]]

Range(s) == {s[i] : i \in 1..Len(s)}

Workers == 1..MaxWorkers

VARIABLES
  \* configuration
  max_workers, max_pages, diff_detection,
  \* AsyncCrawler
  visited_urls, queued_urls, queue,
  new_pages, updated_pages, deleted_pages, page_diffs,
  stats, is_running, stop_event,
  \* the crawl() coroutine and the worker tasks
  crawl_pc, pc, wurl, wcached,
  \* ContentRepository
  contents, urls_by_status, total_urls,
  \* CrawlCache (pages table and crawl_history table)
  pages, crawl_history,
  \* history of the run
  generation, pages0, fetched, fetched1, process_count,
  \* Fetcher: configuration, the wall clock and the two rate-limit clocks
  delay, max_retries, now, last_request_time, domain_last_request,
  \* Fetcher.fetch as run by the executor threads
  fpc, ftokens, retries, wake, response, sent_at, request_count, fresult,
  last_sent,
  \* the calls made on a CrawlCache used on its own
  store_calls,
  \* the adds made on a ContentRepository used on its own
  repo_calls,
  \* UrlFilter applied to one URL: the URL, the results of normalize_url
  \* applied to it over and over, the result of should_crawl, and a second
  \* URL written differently with its normalize_url
  filter_url, normalized, admitted, variant

config_vars == <<max_workers, max_pages, diff_detection>>
crawler_vars == <<visited_urls, queued_urls, queue, new_pages, updated_pages,
                  deleted_pages, page_diffs, stats, is_running, stop_event>>
task_vars == <<crawl_pc, pc, wurl, wcached>>
repo_vars == <<contents, urls_by_status, total_urls>>
cache_vars == <<pages, crawl_history>>
hist_vars == <<generation, pages0, fetched, fetched1, process_count>>

fetcher_vars == <<delay, max_retries, now, last_request_time,
                  domain_last_request, fpc, ftokens, retries, wake, response,
                  sent_at, request_count, fresult, last_sent>>

\* What the crawl actions work on, and what they leave alone.
crawl_vars == <<config_vars, crawler_vars, task_vars, repo_vars, cache_vars, hist_vars>>
url_vars == <<filter_url, normalized, admitted, variant>>
aux_vars == <<fetcher_vars, store_calls, repo_calls, url_vars>>

vars == <<crawl_vars, aux_vars>>

EmptyFun == [x \in {} |-> None]

\* State right after AsyncCrawler.__init__ with a fresh ContentRepository.
Constructed ==
  /\ visited_urls = {}
  /\ queued_urls = {base_url}
  /\ queue = <<base_url>>
  /\ new_pages = <<>>
  /\ updated_pages = <<>>
  /\ deleted_pages = {}
  /\ page_diffs = EmptyFun
  /\ stats = [processed_urls |-> 0, successful_fetches |-> 0,
              failed_fetches |-> 0, skipped_urls |-> 0]
  /\ is_running = FALSE
  /\ stop_event = FALSE
  /\ crawl_pc = "new"
  /\ pc = [w \in Workers |-> "new"]
  /\ wurl = [w \in Workers |-> NoUrl]
  /\ wcached = [w \in Workers |-> NoPage]
  /\ contents = EmptyFun
  /\ urls_by_status = [s \in {"success", "error", "skipped"} |-> {}]
  /\ total_urls = 0
  /\ fetched = [u \in Urls |-> NotFetched]
  /\ process_count = [u \in Urls |-> 0]

\* A UrlFilter that has not been applied to a URL.
FilterUnused ==
  /\ filter_url = NoUrl
  /\ normalized = <<>>
  /\ admitted = {}
  /\ variant = <<>>

\* ------------------------------------------------------ ContentRepository
\* ContentRepository.add(page_data, status)
RepoContentsAdd(c, url, page_data) == Put(c, url, page_data)

RepoStatusAdd(sets, url, status) ==
  IF status \in DOMAIN sets
    THEN [sets EXCEPT ![status] = @ \cup {url}]
    ELSE sets

\* ContentRepository.count
count == Cardinality(DOMAIN contents)

\* ContentRepository.get_metadata: the per-status counts
success_count == Cardinality(urls_by_status["success"])
error_count == Cardinality(urls_by_status["error"])
skipped_count == Cardinality(urls_by_status["skipped"])

\* ------------------------------------------------------------- CrawlCache
\* CrawlCache.get_page
get_page(tbl, url) == IF url \in DOMAIN tbl THEN tbl[url] ELSE NoPage

\* A row written without the hash of its content.
CacheRowNoHash(page_data) ==
  [title |-> page_data.title,
   content_hash |-> None,
   etag |-> page_data.etag,
   last_modified |-> page_data.last_modified,
   markdown_content |-> page_data.markdown_content]

\* CrawlCache.add_or_update_page: the row written and the value returned
CacheRow(page_data) ==
  [title |-> page_data.title,
   content_hash |-> compute_hash(page_data.markdown_content),
   etag |-> page_data.etag,
   last_modified |-> page_data.last_modified,
   markdown_content |-> page_data.markdown_content]

\* add_or_update_page that loses the row it was given.
add_or_update_page_lost(tbl, url, page_data) == tbl

add_or_update_page(tbl, url, page_data) == Put(tbl, url, CacheRow(page_data))

\* add_or_update_page that never finds the existing row.
is_update_never(tbl, url) == FALSE

is_update(tbl, url) == url \in DOMAIN tbl

\* An is_content_changed that compares with the stored text of another row.
is_content_changed_any_row(tbl, url, markdown_content) ==
  IF url \notin DOMAIN tbl THEN TRUE
  ELSE \E u \in DOMAIN tbl : compute_hash(markdown_content) # tbl[u].content_hash

\* CrawlCache.is_content_changed
is_content_changed(tbl, url, markdown_content) ==
  IF url \notin DOMAIN tbl THEN TRUE
  ELSE compute_hash(markdown_content) # tbl[url].content_hash

\* CrawlCache.get_diff
get_diff(tbl, url, current_content) ==
  IF url \notin DOMAIN tbl THEN <<"new page">>
  ELSE IF tbl[url].markdown_content = None THEN <<"previous content empty">>
  ELSE unified_diff(tbl[url].markdown_content, current_content)

\* CrawlCache.get_all_urls
get_all_urls(tbl) == DOMAIN tbl

\* CrawlCache.delete_urls
delete_urls(tbl, urls) == [u \in (DOMAIN tbl) \ urls |-> tbl[u]]

\* ---------------------------------------------------------------- Fetcher
\* The executor threads that run Fetcher.fetch for the workers
\* (fetch_async): two fetches, one after the other or at the same time.
Fetchers == {"thread-1", "thread-2"}

Max(a, b) == IF a >= b THEN a ELSE b

RECURSIVE pow2(_)
pow2(n) == IF n = 0 THEN 1 ELSE 2 * pow2(n - 1)

\* The Retry-After header of a response: absent, a number of seconds, or
\* an HTTP-date.
NoHeader == [present |-> FALSE, numeric |-> FALSE, seconds |-> 0]
HttpDate == [present |-> TRUE, numeric |-> FALSE, seconds |-> 0]
RetryAfterHeaders ==
  {NoHeader, HttpDate}
    \cup [present : {TRUE}, numeric : {TRUE}, seconds : 0..MaxRetryAfter]

\* What session.get gives: a response, or one of the requests exceptions.
HttpResponse(code, content_type, retry_after) ==
  [exception |-> "none", status_code |-> code, content_type |-> content_type,
   retry_after |-> retry_after]

RequestException(e) ==
  [exception |-> e, status_code |-> 0, content_type |-> "", retry_after |-> NoHeader]

NetworkErrors == {"Timeout", "TooManyRedirects", "ConnectionError"}

Responses ==
  {HttpResponse(200, "text/html", NoHeader),
   HttpResponse(200, "application/pdf", NoHeader),
   HttpResponse(304, "", NoHeader),
   HttpResponse(404, "text/html", NoHeader),
   HttpResponse(500, "text/html", NoHeader)}
    \cup {HttpResponse(429, "text/html", h) : h \in RetryAfterHeaders}
    \cup {RequestException(e) : e \in NetworkErrors}

NoResponse == HttpResponse(0, "", NoHeader)

\* What the server does with the URL a thread fetches: anything with the
\* URL of thread-1; the URL of thread-2 is a page that is there or is not.
Answers(t) ==
  IF t = "thread-1" THEN Responses
  ELSE {HttpResponse(200, "text/html", NoHeader),
        HttpResponse(404, "text/html", NoHeader)}

\* The (etag, last_modified) arguments of fetch.
NoTokens == [etag |-> None, last_modified |-> None]
TokenArgs == {NoTokens, [etag |-> "e1", last_modified |-> "lm1"]}

\* The pair fetch returns: the body and the metadata dictionary.
FetchReturnValue(body, code, error, etag, last_modified) ==
  [body |-> body, status_code |-> code, error |-> error,
   etag |-> etag, last_modified |-> last_modified]

Failure(code, error) == FetchReturnValue(None, code, error, None, None)

NoResult == FetchReturnValue(None, 0, None, None, None)

\* A backoff that does not grow.
backoff_flat(n) == delay

\* time.sleep(retry_delay * (2 ** retries)), in ticks
backoff(n) == delay * pow2(n)

\* int(response.headers.get('Retry-After', retry_delay * 2)): whole seconds
retry_after_seconds(header) ==
  IF header.present THEN header.seconds ELSE (delay * 2) \div TicksPerSecond

\* What the body of the while loop of fetch does with what session.get gave,
\* n being the value of retries: sleep and go round again, return, or raise.
Sleep(n, ticks) == [then |-> "sleep", retries |-> n, ticks |-> ticks, result |-> NoResult]
Return(n, result) == [then |-> "return", retries |-> n, ticks |-> 0, result |-> result]
Raise(n) == [then |-> "raise", retries |-> n, ticks |-> 0, result |-> NoResult]

on_response(r, n, tokens) ==
  IF r.exception \in {"Timeout", "ConnectionError"}
    THEN IF n + 1 <= max_retries
           THEN Sleep(n + 1, backoff(n + 1))
           ELSE Return(n + 1, Failure(0, r.exception))
  ELSE IF r.exception = "TooManyRedirects"
    THEN Return(n, Failure(0, "Too many redirects"))
  ELSE IF r.status_code = 304
    THEN Return(n, FetchReturnValue(None, 304, None, tokens.etag, tokens.last_modified))
  ELSE IF r.status_code = 429
    THEN IF r.retry_after.present /\ ~r.retry_after.numeric
           THEN Raise(n)
           ELSE Sleep(n + 1, retry_after_seconds(r.retry_after) * TicksPerSecond)
  ELSE IF r.status_code >= 400
    THEN IF r.status_code = 404 THEN Return(n, Failure(404, "Not Found"))
         ELSE IF n < max_retries THEN Sleep(n + 1, backoff(n + 1))
         ELSE Return(n, Failure(r.status_code, "HTTP error"))
  ELSE IF r.content_type # "text/html"
    THEN Return(n, FetchReturnValue(None, r.status_code, None, None, None))
  ELSE Return(n, FetchReturnValue("html", r.status_code, None, "e1", "lm1"))

\* State right after Fetcher.__init__; no thread is in fetch.
FetcherConstructed ==
  /\ last_request_time = 0
  /\ domain_last_request = EmptyFun
  /\ fpc = [t \in Fetchers |-> "idle"]
  /\ ftokens = [t \in Fetchers |-> NoTokens]
  /\ retries = [t \in Fetchers |-> 0]
  /\ wake = [t \in Fetchers |-> 0]
  /\ response = [t \in Fetchers |-> NoResponse]
  /\ sent_at = [t \in Fetchers |-> 0]
  /\ request_count = [t \in Fetchers |-> 0]
  /\ fresult = [t \in Fetchers |-> NoResult]
  /\ last_sent = {}

\* The pages table a previous generation can have left: nothing, the rows
\* of a crawl of the version 1 site, of the version 2 site, and of a site
\* that had /p1 and /p2 in version 2 under a version 1 root.
PreviousCaches ==
  { EmptyFun,
    [u \in {base_url, HP1, HP2} |-> CacheRow(PageData(1))],
    [u \in CrawlableUrls |-> CacheRow(PageData(2))],
    [u \in {base_url, HP1, HP2} |->
        IF u = base_url THEN CacheRow(PageData(1)) ELSE CacheRow(PageData(2))] }

Init ==
  /\ max_workers \in 1..MaxWorkers
  /\ max_pages \in {SmallMaxPages, 10}
  /\ diff_detection \in BOOLEAN
  /\ Constructed
  /\ pages \in (IF diff_detection THEN PreviousCaches ELSE {EmptyFun})
  /\ crawl_history = <<>>
  /\ generation = "first"
  /\ pages0 = pages
  /\ fetched1 = [u \in Urls |-> NotFetched]
  /\ delay = TicksPerSecond
  /\ max_retries = MaxRetries
  /\ now = delay
  /\ FetcherConstructed
  /\ store_calls = <<>>
  /\ repo_calls = <<>>
  /\ FilterUnused

\* ------------------------------------------------------------ AsyncCrawler
\* An enqueue test that never finds the cap reached.
cap_reached_never(visited, queued) == FALSE

\* _add_new_links_to_queue, the test of max_pages
cap_reached(visited, queued) ==
  Cardinality(visited) + Cardinality(queued) >= max_pages

\* AsyncCrawler._add_new_links_to_queue: the loop over the links
RECURSIVE add_new_links_to_queue(_, _, _, _)
add_new_links_to_queue(links, visited, queued, q) ==
  IF links = <<>> THEN [queued_urls |-> queued, queue |-> q]
  ELSE LET link == Head(links)
       IN  IF link \in visited \/ link \in queued
             THEN add_new_links_to_queue(Tail(links), visited, queued, q)
           ELSE IF cap_reached(visited, queued)
             THEN [queued_urls |-> queued, queue |-> q]
           ELSE add_new_links_to_queue(Tail(links), visited,
                                       queued \cup {link}, Append(q, link))

\* _process_url that does not mark the URL before the fetch.
MarkVisitedNot(visited, url) == visited

\* _process_url, first statement: self.visited_urls.add(url)
MarkVisited(visited, url) == visited \cup {url}

\* The values _process_url works on, as one record.
Current ==
  [contents |-> contents, statuses |-> urls_by_status, total |-> total_urls,
   pages |-> pages, new_pages |-> new_pages, updated_pages |-> updated_pages,
   page_diffs |-> page_diffs, stats |-> stats,
   queued_urls |-> queued_urls, queue |-> queue]

\* self.repository.add(page_data, status) on such a record
RepositoryAdd(s, url, page_data, status) ==
  [s EXCEPT !.contents = RepoContentsAdd(@, url, page_data),
            !.statuses = RepoStatusAdd(@, url, status),
            !.total = @ + 1]

\* _process_url, the except clause
ExceptClause(s, url) ==
  RepositoryAdd([s EXCEPT !.stats.failed_fetches = @ + 1], url, ErrorPage, "error")

\* A 304 branch that records the URL like a fetch without body.
NotModifiedBranchAsSkipped(s, url, cached_page) ==
  RepositoryAdd([s EXCEPT !.stats.skipped_urls = @ + 1], url, ErrorPage, "skipped")

\* _process_url, 304 branch: the record synthesized from the cached page
NotModifiedBranch(s, url, cached_page) ==
  RepositoryAdd(s, url,
                [title |-> cached_page.title,
                 markdown_content |-> cached_page.markdown_content,
                 etag |-> cached_page.etag,
                 last_modified |-> cached_page.last_modified],
                "success")

\* _process_url, branch "html is None"
NoHtmlBranch(s, url) ==
  RepositoryAdd([s EXCEPT !.stats.skipped_urls = @ + 1], url, ErrorPage, "skipped")

\* _process_url, branch "no html_content after parse"
NoContentBranch(s) ==
  [s EXCEPT !.stats.successful_fetches = @ + 1, !.stats.skipped_urls = @ + 1]

\* _process_url, diff detection block
DiffDetection(s, url, page_data) ==
  LET markdown_content == page_data.markdown_content
      updating == is_update(s.pages, url)
      s2 == [s EXCEPT !.pages = add_or_update_page(@, url, page_data)]
  IN  IF updating
        THEN IF is_content_changed(s2.pages, url, markdown_content)
               THEN [s2 EXCEPT !.updated_pages = Append(@, url),
                               !.page_diffs = Put(@, url,
                                    get_diff(s2.pages, url, markdown_content))]
               ELSE s2
        ELSE [s2 EXCEPT !.new_pages = Append(@, url)]

\* _process_url from the return of fetch_async to its end
ProcessFetched(s, url, cached_page, o) ==
  IF o.res = "raises" THEN ExceptClause(s, url)
  ELSE IF o.res = "not_modified" /\ cached_page # NoPage
    THEN NotModifiedBranch(s, url, cached_page)
  ELSE IF o.res \in {"not_modified", "failed", "non_html"}
    THEN NoHtmlBranch(s, url)
  ELSE IF o.res = "unparsable" THEN NoContentBranch(s)
  ELSE
    LET s1 == [s EXCEPT !.stats.successful_fetches = @ + 1]
        page_data == PageData(o.ver)
        links == ParseLinks(Hrefs(PageOf(url), o.ver))
    IN  IF o.exc = "convert" THEN ExceptClause(s1, url)
        ELSE IF o.exc = "upsert" THEN ExceptClause(s1, url)
        ELSE IF o.exc = "changed"
          THEN ExceptClause([s1 EXCEPT !.pages = add_or_update_page(@, url, page_data)], url)
        ELSE
          LET s3 == IF diff_detection THEN DiffDetection(s1, url, page_data) ELSE s1
              s4 == RepositoryAdd(s3, url, page_data, "success")
              q == add_new_links_to_queue(links, visited_urls, s4.queued_urls, s4.queue)
          IN  [s4 EXCEPT !.queued_urls = q.queued_urls, !.queue = q.queue]

\* An outcome the program can meet for this task: a 304 answers a conditional
\* request only; a store call raises only where it is made.
Possible(o, url, cached_page) ==
  /\ o.res = "not_modified" =>
       (cached_page # NoPage
        /\ (cached_page.etag # None \/ cached_page.last_modified # None))
  /\ o.exc = "upsert" => diff_detection
  /\ o.exc = "changed" => (diff_detection /\ url \in DOMAIN pages)

\* crawl(): is_running is set and the worker tasks are created
CrawlStart ==
  /\ crawl_pc = "new"
  /\ crawl_pc' = "gather"
  /\ is_running' = TRUE
  /\ pc' = [w \in Workers |-> IF w <= max_workers THEN "loop" ELSE "unused"]
  /\ UNCHANGED <<aux_vars, config_vars, visited_urls, queued_urls, queue, new_pages,
                 updated_pages, deleted_pages, page_diffs, stats, stop_event,
                 wurl, wcached, repo_vars, cache_vars, hist_vars>>

\* A worker loop without the completion test: only a stop ends it.
WorkerLoopNoBreak(w) ==
  /\ pc[w] = "loop"
  /\ pc' = [pc EXCEPT ![w] = IF stop_event THEN "exited" ELSE "get"]
  /\ UNCHANGED <<aux_vars, config_vars, crawler_vars, crawl_pc, wurl, wcached,
                 repo_vars, cache_vars, hist_vars>>

\* _worker: the loop condition and the completion test
WorkerLoop(w) ==
  /\ pc[w] = "loop"
  /\ pc' = [pc EXCEPT ![w] =
              IF stop_event THEN "exited"
              ELSE IF queue = <<>> /\ (\A u \in queued_urls : u \in visited_urls)
                THEN "exited"
              ELSE "get"]
  /\ UNCHANGED <<aux_vars, config_vars, crawler_vars, crawl_pc, wurl, wcached,
                 repo_vars, cache_vars, hist_vars>>

\* _worker: queue.get() delivers an item
WorkerGet(w) ==
  /\ pc[w] = "get"
  /\ queue # <<>>
  /\ wurl' = [wurl EXCEPT ![w] = Head(queue)]
  /\ queue' = Tail(queue)
  /\ pc' = [pc EXCEPT ![w] = "got"]
  /\ UNCHANGED <<aux_vars, config_vars, visited_urls, queued_urls, new_pages,
                 updated_pages, deleted_pages, page_diffs, stats, is_running,
                 stop_event, crawl_pc, wcached, repo_vars, cache_vars, hist_vars>>

\* _worker: wait_for times out on the empty queue, continue
WorkerTimeout(w) ==
  /\ pc[w] = "get"
  /\ queue = <<>>
  /\ pc' = [pc EXCEPT ![w] = "loop"]
  /\ UNCHANGED <<aux_vars, config_vars, crawler_vars, crawl_pc, wurl, wcached,
                 repo_vars, cache_vars, hist_vars>>

\* _worker after the dequeue.  A URL that is already visited: task_done,
\* continue.  Otherwise the worker enters _process_url (the semaphore has one
\* permit per worker and never blocks): mark visited, read the cached page,
\* call fetch_async.
ProcessStart(w) ==
  /\ pc[w] = "got"
  /\ IF wurl[w] \in visited_urls
       THEN /\ pc' = [pc EXCEPT ![w] = "loop"]
            /\ wurl' = [wurl EXCEPT ![w] = NoUrl]
            /\ UNCHANGED <<visited_urls, stats, wcached, process_count>>
       ELSE /\ visited_urls' = MarkVisited(visited_urls, wurl[w])
            /\ stats' = [stats EXCEPT !.processed_urls = @ + 1]
            /\ wcached' = [wcached EXCEPT ![w] =
                  IF diff_detection THEN get_page(pages, wurl[w]) ELSE NoPage]
            /\ pc' = [pc EXCEPT ![w] = "fetch"]
            /\ process_count' = [process_count EXCEPT ![wurl[w]] = @ + 1]
            /\ UNCHANGED wurl
  /\ UNCHANGED <<aux_vars, config_vars, queued_urls, queue, new_pages, updated_pages,
                 deleted_pages, page_diffs, is_running, stop_event, crawl_pc,
                 repo_vars, cache_vars, generation, pages0, fetched,
                 fetched1>>

\* fetch_async returns (or raises) and _process_url runs to its end; the
\* worker calls task_done
FetchReturn(w, o) ==
  /\ pc[w] = "fetch"
  /\ Possible(o, wurl[w], wcached[w])
  /\ LET r == ProcessFetched(Current, wurl[w], wcached[w], o)
     IN  /\ contents' = r.contents
         /\ urls_by_status' = r.statuses
         /\ total_urls' = r.total
         /\ pages' = r.pages
         /\ new_pages' = r.new_pages
         /\ updated_pages' = r.updated_pages
         /\ page_diffs' = r.page_diffs
         /\ stats' = r.stats
         /\ queued_urls' = r.queued_urls
         /\ queue' = r.queue
  /\ fetched' = [fetched EXCEPT ![wurl[w]] = Observed(o)]
  /\ pc' = [pc EXCEPT ![w] = "loop"]
  /\ wurl' = [wurl EXCEPT ![w] = NoUrl]
  /\ wcached' = [wcached EXCEPT ![w] = NoPage]
  /\ UNCHANGED <<aux_vars, config_vars, visited_urls, deleted_pages, is_running,
                 stop_event, crawl_pc, crawl_history, generation, pages0,
                 fetched1, process_count>>

\* AsyncCrawler.stop
Stop ==
  /\ is_running
  /\ ~stop_event
  /\ stop_event' = TRUE
  /\ UNCHANGED <<aux_vars, config_vars, visited_urls, queued_urls, queue, new_pages,
                 updated_pages, deleted_pages, page_diffs, stats, is_running,
                 task_vars, repo_vars, cache_vars, hist_vars>>

\* crawl(): gather has returned, the finally block
CrawlFinish ==
  /\ crawl_pc = "gather"
  /\ \A w \in Workers : pc[w] \in {"exited", "unused"}
  /\ crawl_pc' = "returned"
  /\ is_running' = FALSE
  /\ IF diff_detection
       THEN LET cached_urls == get_all_urls(pages)
                current_urls == DOMAIN contents
                deleted == cached_urls \ current_urls
            IN  /\ deleted_pages' = deleted
                /\ pages' = delete_urls(pages, deleted)
                /\ crawl_history' = Append(crawl_history,
                      [page_count |-> count, new_count |-> Len(new_pages),
                       updated_count |-> Len(updated_pages),
                       deleted_count |-> Cardinality(deleted)])
       ELSE UNCHANGED <<deleted_pages, pages, crawl_history>>
  /\ UNCHANGED <<aux_vars, config_vars, visited_urls, queued_urls, queue, new_pages,
                 updated_pages, page_diffs, stats, stop_event, pc, wurl,
                 wcached, repo_vars, hist_vars>>

\* crawl(): the diff summary returned
has_changes == new_pages # <<>> \/ updated_pages # <<>> \/ deleted_pages # {}

\* The next run: a new crawler and repository over the same cache.
NewGeneration ==
  /\ crawl_pc = "returned"
  /\ generation = "first"
  /\ generation' = "second"
  /\ visited_urls' = {}
  /\ queued_urls' = {base_url}
  /\ queue' = <<base_url>>
  /\ new_pages' = <<>>
  /\ updated_pages' = <<>>
  /\ deleted_pages' = {}
  /\ page_diffs' = EmptyFun
  /\ stats' = [processed_urls |-> 0, successful_fetches |-> 0,
               failed_fetches |-> 0, skipped_urls |-> 0]
  /\ is_running' = FALSE
  /\ stop_event' = FALSE
  /\ crawl_pc' = "new"
  /\ pc' = [w \in Workers |-> "new"]
  /\ wurl' = [w \in Workers |-> NoUrl]
  /\ wcached' = [w \in Workers |-> NoPage]
  /\ contents' = EmptyFun
  /\ urls_by_status' = [s \in {"success", "error", "skipped"} |-> {}]
  /\ total_urls' = 0
  /\ fetched' = [u \in Urls |-> NotFetched]
  /\ process_count' = [u \in Urls |-> 0]
  /\ pages0' = pages
  /\ fetched1' = fetched
  /\ UNCHANGED <<aux_vars, config_vars, cache_vars>>

Next ==
  \/ CrawlStart
  \/ \E w \in Workers : WorkerLoop(w)
  \/ \E w \in Workers : WorkerGet(w)
  \/ \E w \in Workers : WorkerTimeout(w)
  \/ \E w \in Workers : ProcessStart(w)
  \/ \E w \in Workers : \E o \in Outcomes : FetchReturn(w, o)
  \/ Stop
  \/ CrawlFinish

Spec == Init /\ [][Next]_vars

\* The outcome every fetch can have, whatever the URL and the cache.
FetchFails == [res |-> "failed", ver |-> 0, exc |-> "none"]

\* What a worker task does next, wherever it is in _worker.  The return of
\* a fetch is enabled iff its return with a failure is, which is listed
\* first: it is the outcome on which enabledness is decided.
WorkerStep(w) ==
  \/ WorkerLoop(w)
  \/ WorkerGet(w)
  \/ WorkerTimeout(w)
  \/ ProcessStart(w)
  \/ FetchReturn(w, FetchFails)
  \/ \E o \in Outcomes : FetchReturn(w, o)

\* The scheduling that asyncio and the executor give: the event loop runs
\* every task that can run (queue.get delivers or times out, every fetch
\* returns), and crawl() goes on when it can.  stop() is up to the caller.
Fairness ==
  /\ WF_vars(CrawlStart \/ CrawlFinish)
  /\ \A w \in Workers : WF_vars(WorkerStep(w))

SpecLive == Init /\ [][Next]_vars /\ Fairness

\* Two runs over a site that does not change: in the second run every URL
\* fetched in the first run gives what it gave then.
SameSite(w, o) ==
  (pc[w] = "fetch" /\ generation = "second") =>
    (fetched1[wurl[w]] = NotFetched \/ Observed(o) = fetched1[wurl[w]])

NextTwice ==
  \/ CrawlStart
  \/ \E w \in Workers : WorkerLoop(w)
  \/ \E w \in Workers : WorkerGet(w)
  \/ \E w \in Workers : WorkerTimeout(w)
  \/ \E w \in Workers : ProcessStart(w)
  \/ \E w \in Workers : \E o \in Outcomes : SameSite(w, o) /\ FetchReturn(w, o)
  \/ Stop
  \/ CrawlFinish
  \/ NewGeneration

\* The first of the two runs starts on a new cache, with diff detection.
InitTwice == Init /\ diff_detection /\ pages = EmptyFun

SpecTwice == InitTwice /\ [][NextTwice]_vars

\* ------------------------------------------------- Fetcher.fetch, threads
\* fetch is entered: _wait_for_rate_limit reads the clocks and sleeps for
\* what is left of the delay
FetchCall(t, tokens) ==
  /\ fpc[t] = "idle"
  /\ LET domain == Netloc(base_url)
         current_time == now
         domain_last_time == IF domain \in DOMAIN domain_last_request
                               THEN domain_last_request[domain] ELSE 0
         last_time == Max(last_request_time, domain_last_time)
         elapsed == current_time - last_time
     IN  wake' = [wake EXCEPT ![t] =
                    IF elapsed < delay THEN now + (delay - elapsed) ELSE now]
  /\ fpc' = [fpc EXCEPT ![t] = "rate_limit"]
  /\ ftokens' = [ftokens EXCEPT ![t] = tokens]
  /\ retries' = [retries EXCEPT ![t] = 0]
  /\ request_count' = [request_count EXCEPT ![t] = 0]
  /\ response' = [response EXCEPT ![t] = NoResponse]
  /\ fresult' = [fresult EXCEPT ![t] = NoResult]
  /\ UNCHANGED <<crawl_vars, store_calls, repo_calls, url_vars, delay, max_retries, now,
                 last_request_time, domain_last_request, sent_at, last_sent>>

\* _wait_for_rate_limit after the sleep: both clocks are set; fetch goes on
\* to the while loop with retries = 0
RateLimitDone(t) ==
  /\ fpc[t] = "rate_limit"
  /\ now >= wake[t]
  /\ last_request_time' = now
  /\ domain_last_request' = Put(domain_last_request, Netloc(base_url), now)
  /\ fpc' = [fpc EXCEPT ![t] = "attempt"]
  /\ UNCHANGED <<crawl_vars, store_calls, repo_calls, url_vars, delay, max_retries, now, ftokens,
                 retries, wake, response, sent_at, request_count, fresult,
                 last_sent>>

\* One round of the while loop: session.get sends the request, r is what
\* comes back, and the loop body sleeps, returns or raises
SendRequest(t, r) ==
  /\ fpc[t] = "attempt"
  /\ r.status_code = 304 => ftokens[t] # NoTokens
  /\ LET o == on_response(r, retries[t], ftokens[t])
     IN  /\ retries' = [retries EXCEPT ![t] = o.retries]
         /\ wake' = [wake EXCEPT ![t] = now + o.ticks]
         /\ fresult' = [fresult EXCEPT ![t] = o.result]
         /\ fpc' = [fpc EXCEPT ![t] =
                      IF o.then = "sleep" THEN "sleep"
                      ELSE IF o.then = "return" THEN "returned" ELSE "raised"]
  /\ response' = [response EXCEPT ![t] = r]
  /\ sent_at' = [sent_at EXCEPT ![t] = now]
  /\ request_count' = [request_count EXCEPT ![t] = @ + 1]
  /\ last_sent' = {now}
  /\ UNCHANGED <<crawl_vars, store_calls, repo_calls, url_vars, delay, max_retries, now,
                 last_request_time, domain_last_request, ftokens>>

\* time.sleep in the loop is over: the loop condition is tested
SleepDone(t) ==
  /\ fpc[t] = "sleep"
  /\ now >= wake[t]
  /\ IF retries[t] <= max_retries
       THEN /\ fpc' = [fpc EXCEPT ![t] = "attempt"]
            /\ UNCHANGED fresult
       ELSE /\ fpc' = [fpc EXCEPT ![t] = "returned"]
            /\ fresult' = [fresult EXCEPT ![t] = Failure(0, "Max retries exceeded")]
  /\ UNCHANGED <<crawl_vars, store_calls, repo_calls, url_vars, delay, max_retries, now,
                 last_request_time, domain_last_request, ftokens, retries,
                 wake, response, sent_at, request_count, last_sent>>

\* time.time() advances while a thread sleeps, to the end of a sleep (a
\* sleeper may oversleep the end of its own sleep); running the code and
\* the exchange with the server take no time.
Tick ==
  /\ \E t \in Fetchers :
       /\ fpc[t] \in {"rate_limit", "sleep"}
       /\ wake[t] > now
       /\ wake[t] <= MaxTime
       /\ now' = wake[t]
  /\ UNCHANGED <<crawl_vars, store_calls, repo_calls, url_vars, delay, max_retries,
                 last_request_time, domain_last_request, fpc, ftokens,
                 retries, wake, response, sent_at, request_count, fresult,
                 last_sent>>

NextFetch ==
  \/ \E t \in Fetchers : \E tokens \in TokenArgs : FetchCall(t, tokens)
  \/ \E t \in Fetchers : RateLimitDone(t)
  \/ \E t \in Fetchers : \E r \in Answers(t) : SendRequest(t, r)
  \/ \E t \in Fetchers : SleepDone(t)
  \/ Tick

\* A Fetcher on its own: a delay of a fraction of a second or of one second
\* (the default), the clock past the first delay.
InitFetch ==
  /\ max_workers = MaxWorkers
  /\ max_pages = SmallMaxPages
  /\ diff_detection = FALSE
  /\ Constructed
  /\ pages = EmptyFun
  /\ crawl_history = <<>>
  /\ generation = "first"
  /\ pages0 = pages
  /\ fetched1 = [u \in Urls |-> NotFetched]
  /\ delay \in {1, TicksPerSecond}
  /\ max_retries \in 0..MaxRetries
  /\ now = delay
  /\ FetcherConstructed
  /\ store_calls = <<>>
  /\ repo_calls = <<>>
  /\ FilterUnused

SpecFetch == InitFetch /\ [][NextFetch]_vars

\* ------------------------------------------------ CrawlCache on its own
\* cache.add_or_update_page(page_data) for a page of the site
StoreUpsert(url, v) ==
  /\ Len(store_calls) < MaxCalls
  /\ pages' = add_or_update_page(pages, url, PageData(v))
  /\ store_calls' = Append(store_calls,
        [op |-> "add_or_update_page", url |-> url, page_data |-> PageData(v),
         returned |-> is_update(pages, url), before |-> pages, after |-> pages'])
  /\ UNCHANGED <<config_vars, crawler_vars, task_vars, repo_vars,
                 crawl_history, hist_vars, fetcher_vars, repo_calls, url_vars>>

\* cache.delete_urls([url])
StoreDelete(url) ==
  /\ Len(store_calls) < MaxCalls
  /\ pages' = delete_urls(pages, {url})
  /\ store_calls' = Append(store_calls,
        [op |-> "delete_urls", url |-> url, page_data |-> ErrorPage,
         returned |-> FALSE, before |-> pages, after |-> pages'])
  /\ UNCHANGED <<config_vars, crawler_vars, task_vars, repo_vars,
                 crawl_history, hist_vars, fetcher_vars, repo_calls, url_vars>>

NextStore ==
  \/ \E url \in CrawlableUrls : \E v \in {1, 2} : StoreUpsert(url, v)
  \/ \E url \in CrawlableUrls : StoreDelete(url)

\* A cache as a previous generation left it, before a run touches it.
InitStore ==
  /\ max_workers = MaxWorkers
  /\ max_pages = SmallMaxPages
  /\ diff_detection = TRUE
  /\ Constructed
  /\ pages \in PreviousCaches
  /\ crawl_history = <<>>
  /\ generation = "first"
  /\ pages0 = pages
  /\ fetched1 = [u \in Urls |-> NotFetched]
  /\ delay = TicksPerSecond
  /\ max_retries = MaxRetries
  /\ now = delay
  /\ FetcherConstructed
  /\ store_calls = <<>>
  /\ repo_calls = <<>>
  /\ FilterUnused

SpecStore == InitStore /\ [][NextStore]_vars

\* ----------------------------------------- ContentRepository on its own
\* repository.add(page_data, status) for a URL of the site
RepoAdd(url, page_data, status) ==
  /\ Len(repo_calls) < MaxAdds
  /\ contents' = RepoContentsAdd(contents, url, page_data)
  /\ urls_by_status' = RepoStatusAdd(urls_by_status, url, status)
  /\ total_urls' = total_urls + 1
  /\ repo_calls' = Append(repo_calls,
        [url |-> url, page_data |-> page_data, status |-> status])
  /\ UNCHANGED <<config_vars, crawler_vars, task_vars, cache_vars, hist_vars,
                 fetcher_vars, store_calls, url_vars>>

NextRepo ==
  \E url \in {HP1, HP2} : \E page_data \in {PageData(1), ErrorPage} :
    \E status \in {"success", "error", "skipped"} : RepoAdd(url, page_data, status)

\* A fresh ContentRepository.
InitRepo ==
  /\ max_workers = MaxWorkers
  /\ max_pages = SmallMaxPages
  /\ diff_detection = FALSE
  /\ Constructed
  /\ pages = EmptyFun
  /\ crawl_history = <<>>
  /\ generation = "first"
  /\ pages0 = pages
  /\ fetched1 = [u \in Urls |-> NotFetched]
  /\ delay = TicksPerSecond
  /\ max_retries = MaxRetries
  /\ now = delay
  /\ FetcherConstructed
  /\ store_calls = <<>>
  /\ repo_calls = <<>>
  /\ FilterUnused

SpecRepo == InitRepo /\ [][NextRepo]_vars

\* ------------------------------------------------- UrlFilter on its own
\* The URLs the filter is given: every scheme and host with every path,
\* query and fragment below, the mailto and tel links, and the empty href.
PathInputs == {<<>>, <<"/">>, <<"/p1">>, <<"/p1", "/">>, <<"/p1", "/", "/">>,
               <<"/login">>, <<"/logo.png">>}
QueryInputs == {<<>>, <<"a=1">>, <<"utm_source=x">>, <<"a=1", "fbclid=z">>}
UrlInputs ==
  { <<scheme, host>> \o path \o query \o fragment :
      scheme \in {"https:", "http:", "ftp:", "mailto:"},
      host \in {"//a.test", "//b.test"},
      path \in PathInputs, query \in QueryInputs,
      fragment \in {<<>>, <<"#top">>} }
  \cup {<<>>, HMail, <<"tel:", "+81-3-0000">>}

\* The same URL written with a fragment, with a slash at the end of a path
\* that has none, or with one more tracking parameter.
Variants(url) ==
  LET head == SelectSeq(url, LAMBDA t : t \notin FragmentTokens \cup QueryTokens)
      query == QueryOf(url)
      fragment == SelectSeq(url, LAMBDA t : t \in FragmentTokens)
  IN  IF url = <<>> THEN {}
      ELSE {[kind |-> "fragment", url |-> url \o <<"#top">>] :
               x \in IF fragment = <<>> THEN {1} ELSE {}}
        \cup {[kind |-> "trailing slash", url |-> head \o <<"/">> \o query \o fragment] :
               x \in IF Netloc(url) # "" /\ head[Len(head)] # "/" THEN {1} ELSE {}}
        \cup {[kind |-> "tracking parameter", url |-> head \o query \o <<t>> \o fragment] :
               t \in TrackingParams \ Range(query)}

\* filter.normalize_url(url), on the URL and then on the result
NormalizeUrl ==
  /\ Len(normalized) < MaxApplications
  /\ normalized' = Append(normalized,
        normalize_url(IF normalized = <<>> THEN filter_url
                      ELSE normalized[Len(normalized)]))
  /\ UNCHANGED <<crawl_vars, fetcher_vars, store_calls, repo_calls,
                 filter_url, admitted, variant>>

\* filter.should_crawl(url)
ShouldCrawl ==
  /\ admitted = {}
  /\ admitted' = {should_crawl(filter_url)}
  /\ UNCHANGED <<crawl_vars, fetcher_vars, store_calls, repo_calls,
                 filter_url, normalized, variant>>

\* filter.normalize_url on the URL written differently
NormalizeVariant(v) ==
  /\ variant = <<>>
  /\ variant' = <<[kind |-> v.kind, url |-> v.url,
                   normalized |-> normalize_url(v.url)]>>
  /\ UNCHANGED <<crawl_vars, fetcher_vars, store_calls, repo_calls,
                 filter_url, normalized, admitted>>

NextUrl ==
  \/ NormalizeUrl
  \/ ShouldCrawl
  \/ \E v \in Variants(filter_url) : NormalizeVariant(v)

\* A UrlFilter for the seed, given one URL.
InitUrl ==
  /\ max_workers = MaxWorkers
  /\ max_pages = SmallMaxPages
  /\ diff_detection = FALSE
  /\ Constructed
  /\ pages = EmptyFun
  /\ crawl_history = <<>>
  /\ generation = "first"
  /\ pages0 = pages
  /\ fetched1 = [u \in Urls |-> NotFetched]
  /\ delay = TicksPerSecond
  /\ max_retries = MaxRetries
  /\ now = delay
  /\ FetcherConstructed
  /\ store_calls = <<>>
  /\ repo_calls = <<>>
  /\ filter_url \in UrlInputs
  /\ normalized = <<>>
  /\ admitted = {}
  /\ variant = <<>>

SpecUrl == InitUrl /\ [][NextUrl]_vars

TypeOK ==
  /\ visited_urls \subseteq CrawlableUrls
  /\ queued_urls \subseteq CrawlableUrls
  /\ Range(queue) \subseteq queued_urls
  /\ DOMAIN contents \subseteq visited_urls
  /\ DOMAIN pages \subseteq CrawlableUrls
  /\ \A w \in Workers : pc[w] \in {"new", "unused", "loop", "get", "got", "fetch", "exited"}

\* ------------------------------------------------------------- properties
Returned == crawl_pc = "returned"

FetchedOk(u) == fetched[u].res = "ok" /\ fetched[u].exc = "none"

\* C1: each URL is handed to _process_url at most once, a worker that is
\* in the fetch of a URL has marked it visited, and no two workers are in
\* the fetch of the same URL.
C1_AtMostOnce ==
  /\ \A u \in Urls : process_count[u] <= 1
  /\ \A w \in Workers : pc[w] = "fetch" => wurl[w] \in visited_urls
  /\ \A w1, w2 \in Workers :
       (w1 # w2 /\ pc[w1] = "fetch" /\ pc[w2] = "fetch") => wurl[w1] # wurl[w2]

\* Two workers are in a fetch at the same time.
C1_Witness ==
  \E w1, w2 \in Workers : w1 # w2 /\ pc[w1] = "fetch" /\ pc[w2] = "fetch"

\* C2: a URL with a row from the previous generation whose newly fetched
\* and converted content has another hash is in updated_pages, and diffs
\* holds the unified diff of the previous content against the new one.
C2_ChangeDetected ==
  \A u \in Urls :
    (diff_detection /\ u \in DOMAIN pages0 /\ FetchedOk(u)
       /\ compute_hash(Markdown(fetched[u].ver)) # pages0[u].content_hash)
    => /\ u \in Range(updated_pages)
       /\ u \in DOMAIN page_diffs
       /\ page_diffs[u] = unified_diff(pages0[u].markdown_content,
                                       Markdown(fetched[u].ver))

\* C3: at the end of a run with diff detection, deleted_pages is the set of
\* the URLs cached at the start minus the URLs in the repository, no URL that
\* the run reached (visited) is in it, and the cache has lost the rows of
\* the deleted URLs and no other row.
C3_Deleted ==
  (Returned /\ diff_detection) =>
    /\ deleted_pages = (DOMAIN pages0) \ (DOMAIN contents)
    /\ visited_urls \cap deleted_pages = {}
    /\ DOMAIN pages = ((DOMAIN pages0) \cup (DOMAIN pages)) \ deleted_pages
    /\ \A u \in (DOMAIN pages0) \ deleted_pages : u \in DOMAIN pages

\* C4: a second run that fetched the URLs of the first run with the results
\* of the first run reports no updated, new or deleted page and no change.
C4_Unchanged ==
  (generation = "second" /\ Returned /\ fetched = fetched1) =>
    /\ updated_pages = <<>>
    /\ new_pages = <<>>
    /\ deleted_pages = {}
    /\ ~has_changes

\* A second run has returned after the same fetches as the first, two or
\* more of them successful.
C4_Witness ==
  /\ generation = "second"
  /\ Returned
  /\ fetched = fetched1
  /\ Cardinality(urls_by_status["success"]) >= 2

\* The run of the scenario of C5: the cap is 10, no stop, and every fetch
\* gave version 1 of the page (root links to /p1 and /p2, /p1 to b.test).
C5_Scenario ==
  /\ Returned
  /\ max_pages = 10
  /\ ~stop_event
  /\ \A u \in Urls : fetched[u] = NotFetched \/ (FetchedOk(u) /\ fetched[u].ver = 1)

\* C5: the crawl of the three-page site ends with the records of the root,
\* /p1 and /p2, none for the external URL and no error record.
C5_ThreePages ==
  C5_Scenario =>
    /\ DOMAIN contents = {base_url, HP1, HP2}
    /\ count = 3
    /\ HExt \notin DOMAIN contents
    /\ urls_by_status["error"] = {}

\* The crawl of the three-page site has returned with three records.
C5_Witness == C5_Scenario /\ count = 3 /\ HP1 \in urls_by_status["success"]

\* C6: when crawl() has returned, no URL is both visited and queued.
C6_Disjoint == Returned => visited_urls \cap queued_urls = {}

\* C7: a URL in updated_pages had a row in the previous generation whose hash
\* is not the hash of the new content, a URL in new_pages had no row, and no
\* URL is in both lists.
C7_Classified ==
  /\ \A u \in Range(updated_pages) :
       /\ u \in DOMAIN pages0
       /\ fetched[u].res = "ok"
       /\ pages0[u].content_hash # compute_hash(Markdown(fetched[u].ver))
  /\ \A u \in Range(new_pages) : u \notin DOMAIN pages0
  /\ Range(updated_pages) \cap Range(new_pages) = {}

\* A run over a cache has put one URL in new_pages and has stored another
\* content for a URL that had a row.
C7_Witness ==
  /\ new_pages # <<>>
  /\ \E u \in DOMAIN pages0 :
       /\ FetchedOk(u)
       /\ pages0[u].content_hash # compute_hash(Markdown(fetched[u].ver))
       /\ u \notin Range(new_pages)

\* C8: when crawl() has returned, every visited URL has a record and is in
\* exactly one status set, and the three counts add up to the number of URLs
\* attempted.
C8_OneTerminalStatus ==
  Returned =>
    /\ \A u \in visited_urls :
         /\ u \in DOMAIN contents
         /\ Cardinality({st \in DOMAIN urls_by_status : u \in urls_by_status[st]}) = 1
    /\ success_count + error_count + skipped_count = Cardinality(visited_urls)
    /\ stats.processed_urls = Cardinality(visited_urls)

\* C9: a URL whose fetch failed is recorded with status error, not success
\* and not skipped.
C9_FetchFailureIsError ==
  \A u \in Urls :
    fetched[u].res = "failed" =>
      /\ u \in DOMAIN contents
      /\ u \in urls_by_status["error"]
      /\ u \notin urls_by_status["success"]
      /\ u \notin urls_by_status["skipped"]

\* C10: a URL in whose processing an exception was raised (in the fetch, the
\* parse, the conversion or a store call) has an error-status record, and
\* the worker is back in its loop.
C10_ExceptionIsErrorRecord ==
  \A u \in Urls :
    (fetched[u].res \in {"raises", "unparsable"} \/ fetched[u].exc = "raised") =>
      /\ u \in DOMAIN contents
      /\ contents[u] = ErrorPage
      /\ u \in urls_by_status["error"]
      /\ \A w \in Workers : wurl[w] # u

\* A worker has dequeued a URL and has not finished processing it.
InFlight(w) == pc[w] \in {"got", "fetch"}

\* C11: without a stop request, a worker leaves its loop only when the
\* queue is empty and no worker has a task in flight.
C11_ExitOnlyWhenIdle ==
  [][\A w \in Workers :
       (pc[w] = "loop" /\ pc'[w] = "exited" /\ ~stop_event)
         => (queue = <<>> /\ \A w2 \in Workers : ~InFlight(w2))]_vars

\* C12: once stop_event is set, no worker takes a URL off the queue and no
\* further URL enters _process_url.
C12_NoDequeueAfterStop ==
  [][stop_event =>
       /\ \A w \in Workers : ~(pc[w] = "get" /\ pc'[w] = "got")
       /\ Len(queue') >= Len(queue)]_vars

\* C13: after a stopped run has returned, every row of the previous
\* generation whose URL the run did not reach is still in the pages table,
\* unchanged, and the URL is not in deleted_pages.
C13_StopKeepsCache ==
  (Returned /\ stop_event /\ diff_detection) =>
    \A u \in (DOMAIN pages0) \ visited_urls :
      /\ u \in DOMAIN pages
      /\ pages[u] = pages0[u]
      /\ u \notin deleted_pages

\* run_colab_crawler after crawl() has returned: what it does with the
\* repository and the diff summary.  The cache exists iff diff_detection.
run_colab_crawler(skip_no_changes) ==
  IF count = 0 THEN "no_content"
  ELSE IF skip_no_changes /\ ~has_changes /\ diff_detection THEN "no_changes"
  ELSE "exported"

\* C14: after a run without one successful page, run_colab_crawler takes
\* the zero-page failure exit and exports nothing, whatever skip_no_changes.
C14_ZeroPagesIsFailure ==
  (Returned /\ urls_by_status["success"] = {}) =>
    \A skip_no_changes \in BOOLEAN : run_colab_crawler(skip_no_changes) = "no_content"

Sends(t) == request_count'[t] = request_count[t] + 1

\* C15: a request is sent no sooner than the delay after the request sent
\* before it to the domain, whichever thread and whichever attempt sent it.
C15_RequestsSpaced ==
  [][(\E t \in Fetchers : Sends(t)) => \A s \in last_sent : now - s >= delay]_vars

\* C16: the request that follows a 429 is sent no sooner than Retry-After
\* seconds after it, or twice the delay after it when the header is absent.
C16_RetryAfterHonoured ==
  [][\A t \in Fetchers :
       (Sends(t) /\ request_count[t] > 0 /\ response[t].status_code = 429)
         => now - sent_at[t] >=
              (IF response[t].retry_after.present
                 THEN response[t].retry_after.seconds * TicksPerSecond
                 ELSE 2 * delay)]_vars

\* The attempt of a thread failed: an exception or an error status.
AttemptFailed(t) ==
  response[t].exception # "none" \/ response[t].status_code >= 400

\* C17: fetch does not raise, sends at most max_retries + 1 requests, and
\* returns no body, a status code and an error text when it returns after a
\* failed attempt.
C17_FetchNeverRaises ==
  \A t \in Fetchers :
    /\ fpc[t] # "raised"
    /\ request_count[t] <= max_retries + 1
    /\ (fpc[t] = "returned" /\ AttemptFailed(t)) =>
         (fresult[t].body = None /\ fresult[t].error # None)

\* fetch has returned the failure of a network error.
TerminalFailure(t) ==
  /\ fpc'[t] = "returned"
  /\ fresult'[t].body = None
  /\ fresult'[t].status_code = 0
  /\ fresult'[t].error # None

\* An attempt that ends in a network error of these kinds is followed by a
\* sleep of delay * 2^attempts while attempts are left, and by the return
\* of the failure after attempt max_retries + 1.
RetriedThenTerminal(t, kinds) ==
  (Sends(t) /\ response'[t].exception \in kinds) =>
    IF request_count'[t] <= max_retries
      THEN fpc'[t] = "sleep" /\ wake'[t] = now + delay * pow2(request_count'[t])
      ELSE TerminalFailure(t)

\* C18 as stated: a timeout, a connection failure and too many redirects
\* are all retried with exponential backoff up to the maximum attempt count
\* and reported as a failure only then.
C18_EveryNetworkErrorRetried ==
  [][\A t \in Fetchers : RetriedThenTerminal(t, NetworkErrors)]_vars

\* C18 amended: a timeout and a connection failure are retried with
\* exponential backoff up to the maximum attempt count and reported as a
\* failure only then, no attempt is sent before the end of its backoff, and
\* too many redirects is reported as a failure at once, without a retry.
C18_TransientErrorsRetried ==
  [][\A t \in Fetchers :
       /\ RetriedThenTerminal(t, {"Timeout", "ConnectionError"})
       /\ (fpc[t] = "sleep" /\ fpc'[t] = "attempt") => now >= wake[t]
       /\ (Sends(t) /\ response'[t].exception = "TooManyRedirects")
            => TerminalFailure(t)]_vars

\* A fetch has returned the failure of a timeout after two backoffs.
C18_Witness ==
  \E t \in Fetchers :
    /\ fpc[t] = "returned"
    /\ response[t].exception = "Timeout"
    /\ max_retries >= 2
    /\ request_count[t] = max_retries + 1
    /\ now - sent_at[t] = 0
    /\ now >= delay * (pow2(1) + pow2(2))

\* C20: add_or_update_page for a URL without a row returns False and
\* inserts the row; the same call made again returns True and leaves the
\* table as the first call left it; no call touches the row of another URL.
C20_UpsertIdempotent ==
  \A i \in 1..Len(store_calls) :
    LET c == store_calls[i]
    IN  c.op = "add_or_update_page" =>
          /\ c.url \notin DOMAIN c.before => ~c.returned
          /\ c.url \in DOMAIN c.after
          /\ c.after[c.url] =
               [title |-> c.page_data.title,
                content_hash |-> compute_hash(c.page_data.markdown_content),
                etag |-> c.page_data.etag,
                last_modified |-> c.page_data.last_modified,
                markdown_content |-> c.page_data.markdown_content]
          /\ \A o \in Urls \ {c.url} :
               /\ o \in DOMAIN c.after <=> o \in DOMAIN c.before
               /\ o \in DOMAIN c.before => c.after[o] = c.before[o]
          /\ (i > 1 /\ store_calls[i - 1].op = c.op
                /\ store_calls[i - 1].url = c.url
                /\ store_calls[i - 1].page_data = c.page_data)
               => (c.returned /\ c.after = store_calls[i - 1].after)

\* The same record has been stored twice in a row for a URL that had no
\* row, in a table with the row of another URL.
C20_Witness ==
  \E i \in 2..Len(store_calls) :
    /\ store_calls[i].op = "add_or_update_page"
    /\ store_calls[i - 1] = [store_calls[i] EXCEPT !.returned = FALSE,
                                                   !.before = store_calls[i - 1].before]
    /\ store_calls[i].url \notin DOMAIN store_calls[i - 1].before
    /\ DOMAIN store_calls[i].after # {store_calls[i].url}

\* C25: the seed is in the frontier in its normalized form, and no two
\* frontier entries, visited URLs or records are the same URL after
\* normalization.
C25_SeedNormalized ==
  /\ normalize_url(base_url) \in queued_urls
  /\ \A u1, u2 \in queued_urls \cup visited_urls \cup DOMAIN contents :
       normalize_url(u1) = normalize_url(u2) => u1 = u2

\* The links that Parser.parse gave for the page a worker has just
\* processed to the end.
LinksOf(w) ==
  IF fetched'[wurl[w]].res = "ok" /\ fetched'[wurl[w]].exc = "none"
    THEN Range(ParseLinks(Hrefs(PageOf(wurl[w]), fetched'[wurl[w]].ver)))
    ELSE {}

\* C26: a link that is neither visited nor queued is left out of the
\* frontier only when the number of distinct URLs visited or queued has
\* reached max_pages.
C26_RefusedOnlyAtCap ==
  [][\A w \in Workers :
       (pc[w] = "fetch" /\ pc'[w] = "loop") =>
         \A link \in LinksOf(w) :
           link \notin queued_urls' =>
             Cardinality(visited_urls \cup queued_urls') >= max_pages]_vars

\* C28: queued_urls never has more than max_pages URLs, and neither the
\* URLs processed nor the records of the repository exceed max_pages.
C28_NoOvershoot ==
  /\ Cardinality(queued_urls) <= max_pages
  /\ Cardinality(visited_urls) <= max_pages
  /\ stats.processed_urls <= max_pages
  /\ count <= max_pages

\* A run has returned having left a crawlable URL of the site out of the
\* frontier, with two or more URLs processed.
C28_Witness ==
  /\ Returned
  /\ ~stop_event
  /\ Cardinality(visited_urls) >= 2
  /\ \E u \in {HP1, HP2, HRoot} : u \notin queued_urls
  /\ \E u \in visited_urls : FetchedOk(u) /\ fetched[u].ver = 2

\* C29: after a run in which the root was answered 304 against its cached
\* version 1 (which links to /p1 and /p2), the cached rows of /p1 and /p2
\* are still in the pages table and the two URLs are not in deleted_pages.
C29_LinkedFrom304Kept ==
  (Returned /\ ~stop_event /\ diff_detection /\ max_pages >= 10
     /\ fetched[base_url].res = "not_modified"
     /\ pages0[base_url] = CacheRow(PageData(1))) =>
    \A u \in {HP1, HP2} \cap DOMAIN pages0 :
      u \notin deleted_pages /\ u \in DOMAIN pages

\* C30: crawl() eventually returns, and when it returns without a stop
\* request the queue is empty and every URL ever enqueued has been
\* processed.
C30_CrawlReturns ==
  /\ <>Returned
  /\ [](Returned /\ ~stop_event =>
          queue = <<>> /\ queued_urls \subseteq visited_urls)

\* An unstopped run of two workers has returned after three or more URLs.
C30_Witness ==
  /\ Returned
  /\ ~stop_event
  /\ max_workers >= 2
  /\ Cardinality(visited_urls) >= 3
  /\ queued_urls = visited_urls

\* C21: in the table that add_or_update_page leaves, is_content_changed is
\* False for the URL with the content stored and True with every other
\* content; for a URL without a row it is True with any content.
C21_ChangedRoundTrip ==
  /\ \A i \in 1..Len(store_calls) :
       LET c == store_calls[i]
       IN  c.op = "add_or_update_page" =>
             \A content \in Contents :
               is_content_changed(c.after, c.url, content)
                 <=> content # c.page_data.markdown_content
  /\ \A u \in Urls \ DOMAIN pages :
       \A content \in Contents : is_content_changed(pages, u, content)

\* A row has been overwritten with another content next to a row that
\* holds the old content, and a URL of the site has no row.
C21_Witness ==
  /\ \E i \in 1..Len(store_calls) :
       LET c == store_calls[i]
       IN  /\ c.op = "add_or_update_page"
           /\ c.url \in DOMAIN c.before
           /\ c.before[c.url].markdown_content # c.page_data.markdown_content
           /\ \E u \in DOMAIN c.after :
                c.after[u].markdown_content = c.before[c.url].markdown_content
  /\ CrawlableUrls \ DOMAIN pages # {}

\* The last add made for a URL.
LastAdd(url) ==
  LET made == SelectSeq(repo_calls, LAMBDA c : c.url = url)
  IN  made[Len(made)]

\* C27: after any sequence of adds the repository holds one record per URL
\* added, the last one; every URL is in the status set of its last add and
\* in no other; the success, error and skipped counts add up to count().
C27_LastWriteWins ==
  /\ DOMAIN contents = {repo_calls[i].url : i \in 1..Len(repo_calls)}
  /\ \A url \in DOMAIN contents :
       /\ contents[url] = LastAdd(url).page_data
       /\ \A status \in DOMAIN urls_by_status :
            url \in urls_by_status[status] <=> status = LastAdd(url).status
  /\ success_count + error_count + skipped_count = count

\* C22: normalize_url applied to its own result gives that result again,
\* for every URL that should_crawl admits.
C22_NormalizeIdempotent ==
  admitted = {TRUE} /\ Len(normalized) >= 2 => normalized[2] = normalized[1]

\* C23: two URLs that differ only by a fragment, by a trailing slash or by
\* a tracking parameter have the same normalize_url, also when they carry
\* other query parameters.
C23_VariantsNormalizeAlike ==
  variant # <<>> /\ normalized # <<>> => variant[1].normalized = normalized[1]

\* C24: should_crawl is False for the empty URL, another host, a scheme
\* other than http and https (also on the seed host), a static-asset
\* extension and a deny-listed path, and True for every other URL; host
\* and path are read off the normalized URL, as should_crawl reads them.
C24_ShouldCrawlTable ==
  LET n == normalize_url(filter_url)
      path == PathOf(n)
      refused == \/ filter_url = <<>>
                 \/ Netloc(n) # base_domain
                 \/ n[1] \notin {"http:", "https:"}
                 \/ path # <<>> /\ path[Len(path)] \in static_segments
                 \/ \E i \in 1..Len(path) : path[i] \in exclude_segments
  IN  admitted # {} => admitted = {~refused}

====
